---- MODULE Spec2Model ----
(***************************************************************************)
(* Debt ledger of the grocery-sharing API: receipt confirmation            *)
(* (ReceiptConfirmView.post -> create_receipt_item_and_splits ->           *)
(* update_debts) and settlement (PayDebtView.post ->                       *)
(* validate_payment_amount).                                               *)
(*                                                                         *)
(* Money is held in cents (DecimalField(decimal_places=2)); a payment      *)
(* arrives in thousandths (mills) and is quantized to cents by             *)
(* validate_payment_amount.  The database is modelled as the committed     *)
(* tables plus, for each open transaction.atomic() block, the rows it has  *)
(* written and deleted; a statement reads the committed tables overlaid    *)
(* with its own transaction's writes, and a write waits for the row locks  *)
(* of the other open transaction.                                          *)
(***************************************************************************)
EXTENDS Integers, Sequences, FiniteSets, TLC

\* ------------------------------------------------------------- bounds
MaxReceipts == 2      \* receipt confirmations requested in one behaviour
MaxItems == 2         \* items of one receipt
MaxItemRows == 2      \* ReceiptItem rows requested in one behaviour
MaxPays == 1          \* settlement requests in one behaviour
MaxFolds == 4         \* obligations folded in one behaviour of SpecFold
MaxInFlight == 2      \* requests of one behaviour of SpecConc
MaxReplay == 2        \* obligations SpecReplay folds before it replays them

Procs == {1, 2}       \* request handlers that can be in flight
Groups == {1, 2}
Users == {1, 2, 3}

\* The GroupMember table when a behaviour starts: group 1 has three members,
\* group 2 has two; users 1 and 2 belong to both groups, user 3 to group 1
\* only.
GroupMember ==
    { [id |-> 1, group |-> 1, user |-> 1],
      [id |-> 2, group |-> 1, user |-> 2],
      [id |-> 3, group |-> 1, user |-> 3],
      [id |-> 4, group |-> 2, user |-> 1],
      [id |-> 5, group |-> 2, user |-> 2] }

MemberIds == { m.id : m \in GroupMember }

\* item_data['actual_price'] values of the requests, in cents
Prices == {-1, 1, 3}

\* request.data['amount'] values of the settlement requests, in mills
PayInputs == {-10, 4, 10, 25, 35}

\* request.data.get('amount'): a number, or a value Decimal() cannot read
\* (null, "", "abc", true)
PayAmounts ==
    { [numeric |-> TRUE, mills |-> m] : m \in PayInputs }
        \cup { [numeric |-> FALSE, mills |-> 0] }

SplitMethods == {"EVENLY", "BY_USER", "OTHER"}

VARIABLES
    debts,      \* committed Debt rows [id, group, debtor, creditor, amount]
    receipts,   \* committed Receipt rows, by primary key
    items,      \* committed ReceiptItem rows, by <<receipt, position>>
    splits,     \* committed ReceiptItemSplit rows: their unique key and
                \*   their payer, <<receipt_item, group_member, paid_by>>
    pc,         \* where each handler is
    resp,       \* the last response of each handler: [status, debt, message]
    req,        \* the request being served: [group, methods]
    tx,         \* the open transaction: the receipt, item and split rows it
                \*   created, the Debt rows it wrote and deleted, and the
                \*   item_data of the request it has processed
    todo,       \* splits of the receipt update_debts has still to fold
    cur,        \* update_debts' locals: split, debt, reverse_debt; and
                \*   create_receipt_item_and_splits' item_data, once paid_by
                \*   was looked up
    pay,        \* PayDebtView.post's locals: request.user, group_id, debt_id,
                \*   debt, the request's amount (whether it is a number, and
                \*   its mills), payment_amount (kept as the record of the
                \*   handler's last settlement request)
    snap,       \* history: the committed tables when the request arrived
    folded,     \* history: for members a < b, the obligations a -> b folded
                \*   and committed so far minus the obligations b -> a
    paid,       \* history: accepted payments, summed per (debtor, creditor)
    nReq,       \* confirmations requested so far
    nItems,     \* items requested so far
    nPay,       \* settlements requested so far
    nFold,      \* obligations folded by direct calls of update_debts
    hist,       \* history: the obligations SpecReplay folded the first time
    members     \* the GroupMember rows there are now

vars == <<debts, receipts, items, splits, pc, resp, req, tx, todo, cur, pay,
          snap, folded, paid, nReq, nItems, nPay, nFold, hist, members>>


\* ------------------------------------------------------------ decimals
Abs(x) == IF x < 0 THEN -x ELSE x

\* Decimal.quantize under the default context (ROUND_HALF_EVEN): num/den
\* rounded to an integer, ties to the even neighbour.
QuantizeHalfEven(num, den) ==
    LET a == Abs(num)
        q == a \div den
        r == a % den
        m == IF 2 * r < den THEN q
             ELSE IF 2 * r > den THEN q + 1
             ELSE IF q % 2 = 0 THEN q ELSE q + 1
    IN  IF num < 0 THEN -m ELSE m

\* Decimal.quantize(rounding=ROUND_HALF_UP): ties away from zero.
QuantizeHalfUp(num, den) ==
    LET a == Abs(num)
        q == a \div den
        r == a % den
        m == IF 2 * r < den THEN q ELSE q + 1
    IN  IF num < 0 THEN -m ELSE m

\* ------------------------------------------------------- the Debt table
The(S) == CHOOSE x \in S : TRUE

Ids(V) == { r.id : r \in V }
Key(r) == <<r.group, r.debtor, r.creditor>>
Keys(V) == { Key(r) : r \in V }

\* QuerySet.first(): a row of the queryset, or none.
First(S) == IF S = {} THEN {} ELSE {The(S)}

\* Debt.objects.filter(group=..., debtor=..., creditor=...)
FilterDebt(V, g, d, c) ==
    { r \in V : r.group = g /\ r.debtor = d /\ r.creditor = c }

\* unique_together = ('group', 'debtor', 'creditor')
UniqueViolation(V, row) ==
    \E r \in V : Key(r) = Key(row) /\ r.id # row.id

\* Debt.objects.create(...): INSERT, refused by the unique constraint.
DbCreate(V, row) ==
    IF UniqueViolation(V, row) THEN [ok |-> FALSE, rows |-> V]
    ELSE [ok |-> TRUE, rows |-> V \cup {row}]

\* Model.save() of a loaded instance: UPDATE ... WHERE id = pk and, when no
\* row was updated, INSERT.
DbSave(V, row) ==
    IF row.id \in Ids(V)
    THEN [ok |-> TRUE, rows |-> { r \in V : r.id # row.id } \cup {row}]
    ELSE DbCreate(V, row)

\* A delete that would go by the debtor instead of the primary key.
DbDeleteOfDebtor(V, row) ==
    [ok |-> TRUE, rows |-> { r \in V : r.debtor # row.debtor }]

\* Model.delete(): DELETE ... WHERE id = pk.
DbDelete(V, row) == [ok |-> TRUE, rows |-> { r \in V : r.id # row.id }]

\* The least natural number not in use.
MinFree(used) ==
    CHOOSE i \in 1..(Cardinality(used) + 1) :
        /\ i \notin used
        /\ \A j \in 1..(Cardinality(used) + 1) : j \notin used => i <= j

\* default=uuid.uuid4: a primary key no row and no handler holds.  It is
\* written <<debtor, creditor, n>>, n the least number that makes it new.
NewId(d, c, used) ==
    <<d, c, MinFree({ i[3] : i \in { x \in used : x[1] = d /\ x[2] = c } })>>

\* ------------------------------------------------------ receipt helpers
\* GroupMember.objects.filter(group=group)
MembersOf(g) == { m \in members : m.group = g }
MemberIdsOf(g) == { m.id : m \in MembersOf(g) }

\* A check that would accept a member of any group.
IsMemberOfAny(g, u) == \E m \in GroupMember : m.user = u

\* GroupMember.objects.filter(group=group, user=request.user).exists()
IsMember(g, u) == \E m \in MembersOf(g) : m.user = u

MethodSeqs == UNION { [1..n -> SplitMethods] : n \in 0..MaxItems }

\* validate_receipt_data: at least one item, every split_method known.
validate_receipt_data(methods) ==
    IF methods = <<>>
    THEN [valid |-> FALSE, error |-> "At least one item is required."]
    ELSE IF \E i \in 1..Len(methods) : methods[i] \notin {"EVENLY", "BY_USER"}
    THEN [valid |-> FALSE, error |-> "Invalid split_method"]
    ELSE [valid |-> TRUE, error |-> "None"]

\* A check that would look split_user_id up without the group.
ItemRaisesPayerOnly(method, paid_by_id, split_user_id, g) ==
    \/ paid_by_id \notin MemberIdsOf(g)
    \/ method = "EVENLY" /\ Cardinality(MembersOf(g)) = 0

\* A splitting that would not count the members and whose EVENLY splits
\* would do without the row of the payer.
ItemRaisesByUserOnly(method, paid_by_id, split_user_id, g) ==
    /\ method = "BY_USER"
    /\ \/ paid_by_id \notin MemberIdsOf(g)
       \/ split_user_id \notin MemberIdsOf(g)

\* The splitting of create_receipt_item_and_splits raises: ValueError for an
\* empty roster, Http404 from get_object_or_404 of split_user_id, and
\* IntegrityError when the row of paid_by, looked up before, is no longer
\* there for the foreign key of the new splits.
ItemRaises(method, paid_by_id, split_user_id, g) ==
    \/ paid_by_id \notin MemberIdsOf(g)
    \/ method = "EVENLY" /\ Cardinality(MembersOf(g)) = 0
    \/ method = "BY_USER" /\ split_user_id \notin MemberIdsOf(g)

\* str(e) of the exception the splitting raises, in the order of the code.
ItemError(method, paid_by_id, split_user_id, g) ==
    IF method = "EVENLY" /\ Cardinality(MembersOf(g)) = 0
    THEN "No members in the group to split the item."
    ELSE IF method = "BY_USER" /\ split_user_id \notin MemberIdsOf(g)
    THEN "No GroupMember matches the given query."
    ELSE "IntegrityError"

\* An allocation that would give a BY_USER item a split for the payer too.
ItemSplitsPayerToo(item_id, method, actual_price, paid_by_id, split_user_id, g) ==
    IF method = "EVENLY"
    THEN LET num_members == Cardinality(MembersOf(g))
         IN  { [receipt_item |-> item_id, group_member |-> m,
                amount |-> QuantizeHalfEven(actual_price, num_members),
                paid_by |-> paid_by_id] : m \in MemberIdsOf(g) }
    ELSE { [receipt_item |-> item_id, group_member |-> m,
            amount |-> actual_price, paid_by |-> paid_by_id] :
           m \in {split_user_id, paid_by_id} }

\* The ReceiptItemSplit rows create_receipt_item_and_splits creates for one
\* item: [receipt_item, group_member, amount, paid_by].
ItemSplits(item_id, method, actual_price, paid_by_id, split_user_id, g) ==
    IF method = "EVENLY"
    THEN LET num_members == Cardinality(MembersOf(g))
         IN  { [receipt_item |-> item_id, group_member |-> m,
                amount |-> QuantizeHalfEven(actual_price, num_members),
                paid_by |-> paid_by_id] : m \in MemberIdsOf(g) }
    ELSE { [receipt_item |-> item_id, group_member |-> split_user_id,
            amount |-> actual_price, paid_by |-> paid_by_id] }

\* ---------------------------------------------------------- update_debts
NoCur == [split |-> {}, debt |-> {}, reverse_debt |-> {}, item |-> {}]

\* The two lookups of one iteration: the edge debtor -> creditor and, when
\* there is none, the reverse edge.
ReadDebts(V, g, split) ==
    LET debt == First(FilterDebt(V, g, split.group_member, split.paid_by))
    IN  [split |-> {split},
         debt |-> debt,
         reverse_debt |->
             IF debt # {} THEN {}
             ELSE First(FilterDebt(V, g, split.paid_by, split.group_member)),
         item |-> {}]

\* A forward branch that would leave alone an edge that already has the
\* amount of the obligation.
WriteForwardIdempotent(V, debt0, split) ==
    LET debt == [debt0 EXCEPT !.amount =
                    IF @ = split.amount THEN @ ELSE @ + split.amount]
    IN  IF debt.amount = 0 THEN DbDelete(V, debt) ELSE DbSave(V, debt)

\* A forward branch that would assign the amount instead of adding it.
WriteForwardAssigns(V, debt0, split) ==
    LET debt == [debt0 EXCEPT !.amount = split.amount]
    IN  IF debt.amount = 0 THEN DbDelete(V, debt) ELSE DbSave(V, debt)

\* The forward branch: debt.amount += amount; delete at zero, else save.
WriteForward(V, debt0, split) ==
    LET debt == [debt0 EXCEPT !.amount = @ + split.amount]
    IN  IF debt.amount = 0 THEN DbDelete(V, debt) ELSE DbSave(V, debt)

\* A reverse branch that would keep the direction of the edge when the
\* obligation exceeds it.
WriteReverseSameDirection(V, g, reverse0, split, newId) ==
    LET reverse_debt == [reverse0 EXCEPT !.amount = @ - split.amount]
    IN  IF reverse_debt.amount = 0 THEN DbDelete(V, reverse_debt)
        ELSE IF reverse_debt.amount < 0
        THEN DbSave(V, [reverse_debt EXCEPT !.amount = -@])
        ELSE DbSave(V, reverse_debt)

\* A reverse branch that would save an edge that reached zero.
WriteReverseKeepsZero(V, g, reverse0, split, newId) ==
    LET reverse_debt == [reverse0 EXCEPT !.amount = @ - split.amount]
    IN  IF reverse_debt.amount < 0
        THEN LET made == DbCreate(V, [id |-> newId, group |-> g,
                                      debtor |-> split.group_member,
                                      creditor |-> split.paid_by,
                                      amount |-> -reverse_debt.amount])
             IN  IF made.ok THEN DbDelete(made.rows, reverse_debt) ELSE made
        ELSE DbSave(V, reverse_debt)

\* A reverse branch that would keep the reverse edge when the direction
\* flips.
WriteReverseKeepsEdge(V, g, reverse0, split, newId) ==
    LET reverse_debt == [reverse0 EXCEPT !.amount = @ - split.amount]
    IN  IF reverse_debt.amount = 0 THEN DbDelete(V, reverse_debt)
        ELSE IF reverse_debt.amount < 0
        THEN DbCreate(V, [id |-> newId, group |-> g,
                          debtor |-> split.group_member,
                          creditor |-> split.paid_by,
                          amount |-> -reverse_debt.amount])
        ELSE DbSave(V, reverse_debt)

\* The reverse branch: reverse_debt.amount -= amount; delete at zero; below
\* zero create the edge debtor -> creditor and delete the reverse one; else
\* save.
WriteReverse(V, g, reverse0, split, newId) ==
    LET reverse_debt == [reverse0 EXCEPT !.amount = @ - split.amount]
    IN  IF reverse_debt.amount = 0 THEN DbDelete(V, reverse_debt)
        ELSE IF reverse_debt.amount < 0
        THEN LET made == DbCreate(V, [id |-> newId, group |-> g,
                                      debtor |-> split.group_member,
                                      creditor |-> split.paid_by,
                                      amount |-> -reverse_debt.amount])
             IN  IF made.ok THEN DbDelete(made.rows, reverse_debt) ELSE made
        ELSE DbSave(V, reverse_debt)

\* The last branch: no edge either way, create one.
WriteNew(V, g, split, newId) ==
    DbCreate(V, [id |-> newId, group |-> g, debtor |-> split.group_member,
                 creditor |-> split.paid_by, amount |-> split.amount])

\* The writes of one iteration, given what the lookups returned.
WriteDebts(V, g, c, newId) ==
    IF c.debt # {} THEN WriteForward(V, The(c.debt), The(c.split))
    ELSE IF c.reverse_debt # {}
    THEN WriteReverse(V, g, The(c.reverse_debt), The(c.split), newId)
    ELSE WriteNew(V, g, The(c.split), newId)

\* An iteration that would not skip the split of a payer with themselves.
FoldOneNoSkip(V, g, split) ==
    WriteDebts(V, g, ReadDebts(V, g, split),
               NewId(split.group_member, split.paid_by, Ids(V))).rows

\* One iteration of update_debts' loop on a table no one else writes.
FoldOne(V, g, split) ==
    IF split.group_member = split.paid_by THEN V
    ELSE WriteDebts(V, g, ReadDebts(V, g, split),
                    NewId(split.group_member, split.paid_by, Ids(V))).rows

\* update_debts(splits, group) on a table no one else writes, the splits
\* taken in the order of the sequence.
RECURSIVE update_debts(_, _, _)
update_debts(V, g, ss) ==
    IF ss = <<>> THEN V
    ELSE update_debts(FoldOne(V, g, Head(ss)), g, Tail(ss))

\* A validation that would round under the default context, ties to even.
validate_payment_half_even(payment_amount, debt_amount) ==
    LET rounded == QuantizeHalfEven(payment_amount, 10)
    IN  IF rounded <= 0
        THEN [valid |-> FALSE, payment_amount |-> rounded,
              error |-> "Payment amount must be greater than 0."]
        ELSE IF rounded > debt_amount
        THEN [valid |-> FALSE, payment_amount |-> rounded,
              error |-> "Payment amount cannot exceed the debt amount."]
        ELSE [valid |-> TRUE, payment_amount |-> rounded, error |-> "None"]

\* A validation that would cap an excessive payment at the debt.
validate_payment_capped(payment_amount, debt_amount) ==
    LET rounded == QuantizeHalfUp(payment_amount, 10)
    IN  IF rounded <= 0
        THEN [valid |-> FALSE, payment_amount |-> rounded,
              error |-> "Payment amount must be greater than 0."]
        ELSE IF rounded > debt_amount
        THEN [valid |-> TRUE, payment_amount |-> debt_amount, error |-> "None"]
        ELSE [valid |-> TRUE, payment_amount |-> rounded, error |-> "None"]

\* validate_payment_amount: the payment quantized to cents, half up, then
\* checked against zero and against the debt.
validate_payment_amount(payment_amount, debt_amount) ==
    LET rounded == QuantizeHalfUp(payment_amount, 10)
    IN  IF rounded <= 0
        THEN [valid |-> FALSE, payment_amount |-> rounded,
              error |-> "Payment amount must be greater than 0."]
        ELSE IF rounded > debt_amount
        THEN [valid |-> FALSE, payment_amount |-> rounded,
              error |-> "Payment amount cannot exceed the debt amount."]
        ELSE [valid |-> TRUE, payment_amount |-> rounded, error |-> "None"]

\* ----------------------------------------------------------- transactions
Pairs == { k \in MemberIds \X MemberIds : k[1] < k[2] }
NoFold == [k \in Pairs |-> 0]

\* The signed sum of obligations, per pair a < b, with one more added.
AddObligation(f, split) ==
    LET d == split.group_member
        c == split.paid_by
    IN  IF d = c THEN f
        ELSE IF d < c THEN [f EXCEPT ![<<d, c>>] = @ + split.amount]
        ELSE [f EXCEPT ![<<c, d>>] = @ - split.amount]

NoTx == [receipts |-> {}, items |-> {}, splits |-> {}, wr |-> {}, del |-> {},
         folded |-> NoFold, item_data |-> {}]
NoReq == [group |-> 0, methods |-> <<>>]
NoPay == [user |-> 0, group |-> 0, debt_id |-> <<0, 0, 0>>, debt |-> {},
         numeric |-> TRUE, amount |-> 0, payment_amount |-> 0]
Response(status, message) == [status |-> status, debt |-> {}, message |-> message]

\* What a statement of transaction t reads of the Debt table: the committed
\* rows, with t's own writes and deletes applied.
Overlay(D, t) ==
    { r \in D : r.id \notin t.del /\ r.id \notin Ids(t.wr) } \cup t.wr

View(p) == Overlay(debts, tx[p])

\* t after its statement changed its view of the Debt table from V to V2.
TxAfter(t, V, V2) ==
    [t EXCEPT !.wr = { r \in t.wr : r \in V2 } \cup (V2 \ V),
              !.del = t.del \cup { r.id : r \in { x \in V : x.id \notin Ids(V2) } }]

\* Row locks transaction q holds until it ends.
LockedIds(q) == Ids(tx[q].wr) \cup tx[q].del
LockedKeys(q) == Keys(tx[q].wr) \cup Keys({ r \in debts : r.id \in tx[q].del })

\* The rows and unique-index entries the pending write of p touches.
WriteIds(p) ==
    IF pc[p] = "write" THEN Ids(cur[p].debt \cup cur[p].reverse_debt)
    ELSE IF pc[p] = "pay" THEN Ids(pay[p].debt)
    ELSE {}

WriteKeys(p) ==
    IF pc[p] = "write"
    THEN Keys(cur[p].debt \cup cur[p].reverse_debt)
         \cup { <<req[p].group, s.group_member, s.paid_by>> :
                s \in { x \in cur[p].split :
                          /\ cur[p].debt = {}
                          /\ \A r \in cur[p].reverse_debt : r.amount - x.amount < 0 } }
    ELSE IF pc[p] = "pay" THEN Keys(pay[p].debt)
    ELSE {}

BlockedBy(p, q) ==
    /\ q # p
    /\ \/ WriteIds(p) \cap LockedIds(q) # {}
       \/ WriteKeys(p) \cap LockedKeys(q) # {}
Blocked(p) == \E q \in Procs : BlockedBy(p, q)

\* Every primary key in the table, in an open transaction or in a handler's
\* locals.
UsedIds ==
    Ids(debts) \cup UNION { Ids(tx[q].wr) \cup tx[q].del
                            \cup Ids(cur[q].debt) \cup Ids(cur[q].reverse_debt)
                            \cup (IF pc[q] = "pay" THEN Ids(pay[q].debt) ELSE {})
                            : q \in Procs }

Committed ==
    [debts |-> debts, receipts |-> receipts, items |-> items, splits |-> splits]

\* ------------------------------------------------------------------ Init
Init ==
    /\ debts = {} /\ receipts = {} /\ items = {} /\ splits = {}
    /\ pc = [p \in Procs |-> "idle"]
    /\ resp = [p \in Procs |-> Response("none", "")]
    /\ req = [p \in Procs |-> NoReq]
    /\ tx = [p \in Procs |-> NoTx]
    /\ todo = [p \in Procs |-> {}]
    /\ cur = [p \in Procs |-> NoCur]
    /\ pay = [p \in Procs |-> NoPay]
    /\ snap = [p \in Procs |-> Committed]
    /\ folded = NoFold
    /\ paid = [k \in MemberIds \X MemberIds |-> 0]
    /\ nReq = 0 /\ nItems = 0 /\ nPay = 0 /\ nFold = 0
    /\ hist = <<>>
    /\ members = GroupMember

\* ------------------------------------------- ReceiptConfirmView.post
\* The request arrives: group lookup, membership check, validation; then
\* transaction.atomic() is entered and create_receipt adds the Receipt row.
ConfirmBegin(p, g, u, methods) ==
    /\ pc[p] = "idle"
    /\ nReq' = nReq + 1
    /\ nItems' = nItems + Len(methods)
    /\ snap' = [snap EXCEPT ![p] = Committed]
    /\ IF ~IsMember(g, u)
       THEN /\ resp' = [resp EXCEPT ![p] =
                            Response("403", "You are not a member of this group.")]
            /\ UNCHANGED <<pc, req, tx>>
       ELSE IF ~validate_receipt_data(methods).valid
       THEN /\ resp' = [resp EXCEPT ![p] =
                            Response("400", validate_receipt_data(methods).error)]
            /\ UNCHANGED <<pc, req, tx>>
       ELSE /\ resp' = [resp EXCEPT ![p] = Response("pending", "")]
            /\ pc' = [pc EXCEPT ![p] = "items"]
            /\ req' = [req EXCEPT ![p] = [group |-> g, methods |-> methods]]
            /\ tx' = [tx EXCEPT ![p] =
                        [NoTx EXCEPT !.receipts =
                            {MinFree(receipts \cup
                                     UNION { tx[q].receipts : q \in Procs })}]]
    /\ pay' = [pay EXCEPT ![p] = NoPay]
    /\ UNCHANGED <<debts, receipts, items, splits, todo, cur, folded, paid,
                   nPay, nFold, hist, members>>

\* A rollback that would keep the Receipt row, as if create_receipt ran
\* before the atomic block.
RollbackKeepsReceipt(p, error) ==
    /\ pc' = [pc EXCEPT ![p] = "idle"]
    /\ resp' = [resp EXCEPT ![p] = Response("500", error)]
    /\ tx' = [tx EXCEPT ![p] = NoTx]
    /\ todo' = [todo EXCEPT ![p] = {}]
    /\ cur' = [cur EXCEPT ![p] = NoCur]
    /\ receipts' = receipts \cup tx[p].receipts
    /\ UNCHANGED <<debts, items, splits, folded, req>>

\* An exception leaves the atomic block: the transaction is rolled back and
\* the handler answers 500 with str(e).  req keeps the items that were not
\* processed.
Rollback(p, error) ==
    /\ pc' = [pc EXCEPT ![p] = "idle"]
    /\ resp' = [resp EXCEPT ![p] = Response("500", error)]
    /\ tx' = [tx EXCEPT ![p] = NoTx]
    /\ todo' = [todo EXCEPT ![p] = {}]
    /\ cur' = [cur EXCEPT ![p] = NoCur]
    /\ UNCHANGED <<debts, receipts, items, splits, folded, req>>

\* item_data as create_receipt_item_and_splits reads it, with the id of the
\* ReceiptItem row made for it; split_user_id is read for BY_USER only.
ItemData(item_id, method, actual_price, paid_by_id, split_user_id) ==
    [item |-> item_id, split_method |-> method, actual_price |-> actual_price,
     paid_by_id |-> paid_by_id,
     split_user_id |-> IF method = "BY_USER" THEN split_user_id ELSE 0]

\* One turn of the loop over receipt_data['items'], up to the lookup of
\* paid_by: create_receipt_item_and_splits creates the ReceiptItem row and
\* gets the payer's GroupMember row of this group, or raises Http404.
ProcessItem(p, paid_by_id, split_user_id, actual_price) ==
    /\ pc[p] = "items"
    /\ LET g == req[p].group
           method == Head(req[p].methods)
           receipt == The(tx[p].receipts)
           item_id == <<receipt, Cardinality(tx[p].items) + 1>>
       IN  IF paid_by_id \notin MemberIdsOf(g)
           THEN Rollback(p, "No GroupMember matches the given query.")
           ELSE /\ tx' = [tx EXCEPT ![p].items = @ \cup {item_id}]
                /\ cur' = [cur EXCEPT ![p] =
                             [NoCur EXCEPT !.item =
                                 {ItemData(item_id, method, actual_price,
                                           paid_by_id, split_user_id)}]]
                /\ pc' = [pc EXCEPT ![p] = "split"]
                /\ UNCHANGED <<debts, receipts, items, splits, folded, resp,
                               req, todo>>
    /\ UNCHANGED <<pay, snap, paid, nReq, nItems, nPay, nFold, hist, members>>

\* The rest of the turn: the splits of the item, for the roster as it is
\* now.  A foreign key that fails is taken to fail at the INSERT (a deferred
\* one fails at the commit, with the same rollback).  After the last item
\* the splits of the receipt are queried for update_debts.
SplitItem(p) ==
    /\ pc[p] = "split"
    /\ LET g == req[p].group
           d == The(cur[p].item)
           rest == Tail(req[p].methods)
           made == ItemSplits(d.item, d.split_method, d.actual_price,
                              d.paid_by_id, d.split_user_id, g)
       IN  IF ItemRaises(d.split_method, d.paid_by_id, d.split_user_id, g)
           THEN Rollback(p, ItemError(d.split_method, d.paid_by_id,
                                      d.split_user_id, g))
           ELSE /\ tx' = [tx EXCEPT ![p].splits = @ \cup made,
                                    ![p].item_data = @ \cup {d}]
                /\ req' = [req EXCEPT ![p].methods = rest]
                /\ cur' = [cur EXCEPT ![p] = NoCur]
                /\ IF rest = <<>>
                   THEN /\ pc' = [pc EXCEPT ![p] = "fold"]
                        /\ todo' = [todo EXCEPT ![p] = tx[p].splits \cup made]
                   ELSE /\ pc' = [pc EXCEPT ![p] = "items"]
                        /\ UNCHANGED todo
                /\ UNCHANGED <<debts, receipts, items, splits, folded, resp>>
    /\ UNCHANGED <<pay, snap, paid, nReq, nItems, nPay, nFold, hist, members>>

\* update_debts takes the next split (the queryset has no ordering) and
\* looks the two edges up; a split of the payer with themselves is skipped.
FoldRead(p, split) ==
    /\ pc[p] = "fold"
    /\ split \in todo[p]
    /\ IF split.group_member = split.paid_by
       THEN /\ todo' = [todo EXCEPT ![p] = @ \ {split}]
            /\ UNCHANGED <<pc, cur>>
       ELSE /\ cur' = [cur EXCEPT ![p] = ReadDebts(View(p), req[p].group, split)]
            /\ pc' = [pc EXCEPT ![p] = "write"]
            /\ UNCHANGED todo
    /\ UNCHANGED <<debts, receipts, items, splits, resp, req, tx, pay, snap,
                   folded, paid, nReq, nItems, nPay, nFold, hist, members>>

\* update_debts writes what the lookups call for; an IntegrityError leaves
\* the atomic block.
FoldWrite(p) ==
    /\ pc[p] = "write"
    /\ ~Blocked(p)
    /\ LET V == View(p)
           split == The(cur[p].split)
           res == WriteDebts(V, req[p].group, cur[p],
                             NewId(split.group_member, split.paid_by, UsedIds))
       IN  IF res.ok
           THEN /\ tx' = [tx EXCEPT ![p] =
                            [TxAfter(@, V, res.rows) EXCEPT
                                !.folded = AddObligation(@, split)]]
                /\ todo' = [todo EXCEPT ![p] = @ \ {split}]
                /\ cur' = [cur EXCEPT ![p] = NoCur]
                /\ pc' = [pc EXCEPT ![p] = "fold"]
                /\ UNCHANGED <<debts, receipts, items, splits, folded, resp, req>>
           ELSE Rollback(p, "IntegrityError")
    /\ UNCHANGED <<pay, snap, paid, nReq, nItems, nPay, nFold, hist, members>>

\* The atomic block is left normally: the transaction commits, 201.
Commit(p) ==
    /\ pc[p] = "fold"
    /\ todo[p] = {}
    /\ debts' = View(p)
    /\ receipts' = receipts \cup tx[p].receipts
    /\ items' = items \cup tx[p].items
    /\ splits' = splits \cup { <<s.receipt_item, s.group_member, s.paid_by>> :
                                s \in tx[p].splits }
    /\ folded' = [k \in Pairs |-> folded[k] + tx[p].folded[k]]
    /\ pc' = [pc EXCEPT ![p] = "idle"]
    /\ resp' = [resp EXCEPT ![p] = Response("201", "receipt")]
    /\ req' = [req EXCEPT ![p] = NoReq]
    /\ tx' = [tx EXCEPT ![p] = NoTx]
    /\ UNCHANGED <<todo, cur, pay, snap, paid, nReq, nItems, nPay, nFold, hist, members>>

\* Postgres ends a lock cycle by aborting one of the transactions in it.
DeadlockAbort(p) ==
    /\ pc[p] = "write"
    /\ \E q \in Procs : BlockedBy(p, q) /\ BlockedBy(q, p)
    /\ Rollback(p, "deadlock detected")
    /\ UNCHANGED <<pay, snap, paid, nReq, nItems, nPay, nFold, hist, members>>

\* -------------------------------------------------- PayDebtView.post
\* A check that would let every member of the group settle the debt.
InvolvedInAny(user_member, debt) == user_member # {}

\* user_member in [debt.debtor, debt.creditor]
InvolvedIn(user_member, debt) ==
    user_member \cap {debt.debtor, debt.creditor} # {}

\* Decimal(str(payment_amount)) raises decimal.InvalidOperation, which is an
\* ArithmeticError: validate_payment_amount's except (TypeError, ValueError)
\* does not catch it, and the handler calls validate_payment_amount outside
\* its try block.
DecimalRaises(amount) == ~amount.numeric

\* The request arrives: membership, the debt of this group, the requester's
\* part in it, validate_payment_amount.  All of it reads outside any
\* transaction.  An exception that leaves the handler is answered 500 by the
\* framework.
PayBegin(p, g, u, debt_id, amount) ==
    /\ pc[p] = "idle"
    /\ nPay' = nPay + 1
    /\ snap' = [snap EXCEPT ![p] = Committed]
    /\ LET debt == { r \in debts : r.id = debt_id /\ r.group = g }
           user_member == { m.id : m \in { x \in MembersOf(g) : x.user = u } }
           checked == validate_payment_amount(amount.mills, The(debt).amount)
           asked == [NoPay EXCEPT !.user = u, !.group = g, !.debt_id = debt_id,
                                  !.numeric = amount.numeric]
       IN  IF ~IsMember(g, u)
           THEN /\ resp' = [resp EXCEPT ![p] =
                                Response("403", "You are not a member of this group.")]
                /\ pay' = [pay EXCEPT ![p] = asked]
                /\ UNCHANGED pc
           ELSE IF debt = {}
           THEN /\ resp' = [resp EXCEPT ![p] = Response("404", "Not found.")]
                /\ pay' = [pay EXCEPT ![p] = asked]
                /\ UNCHANGED pc
           ELSE IF ~InvolvedIn(user_member, The(debt))
           THEN /\ resp' = [resp EXCEPT ![p] =
                                Response("403", "You are not involved in this debt.")]
                /\ pay' = [pay EXCEPT ![p] = asked]
                /\ UNCHANGED pc
           ELSE IF DecimalRaises(amount)
           THEN /\ resp' = [resp EXCEPT ![p] = Response("500", "InvalidOperation")]
                /\ pay' = [pay EXCEPT ![p] = asked]
                /\ UNCHANGED pc
           ELSE /\ pay' = [pay EXCEPT ![p] =
                             [asked EXCEPT !.debt = debt, !.amount = amount.mills,
                                  !.payment_amount = checked.payment_amount]]
                /\ IF ~checked.valid
                   THEN /\ resp' = [resp EXCEPT ![p] = Response("400", checked.error)]
                        /\ UNCHANGED pc
                   ELSE /\ resp' = [resp EXCEPT ![p] = Response("pending", "")]
                        /\ pc' = [pc EXCEPT ![p] = "pay"]
    /\ UNCHANGED <<debts, receipts, items, splits, req, tx, todo, cur, folded,
                   paid, nReq, nItems, nFold, hist, members>>

\* A settlement that would delete the edge only below zero.
ApplyPaymentKeepsZero(V, old, payment_amount) ==
    LET debt == [old EXCEPT !.amount = @ - payment_amount]
    IN  IF debt.amount < 0 THEN DbDelete(V, debt) ELSE DbSave(V, debt)

\* debt.amount -= payment_amount on the instance loaded before; delete when
\* nothing is left, else save.
ApplyPayment(V, old, payment_amount) ==
    LET debt == [old EXCEPT !.amount = @ - payment_amount]
    IN  IF debt.amount <= 0 THEN DbDelete(V, debt) ELSE DbSave(V, debt)

\* ForeignKey(GroupMember): the debtor and the creditor of every row of V
\* that is not in V0 are rows of the GroupMember table.
ForeignKeysHold(V, V0) ==
    \A r \in V \ V0 : {r.debtor, r.creditor} \subseteq Ids(members)

\* The atomic block of the handler, and its response; an IntegrityError
\* (the unique constraint, a foreign key) rolls the block back.
PayWrite(p) ==
    /\ pc[p] = "pay"
    /\ ~Blocked(p)
    /\ LET old == The(pay[p].debt)
           debt == [old EXCEPT !.amount = @ - pay[p].payment_amount]
           done == ApplyPayment(debts, old, pay[p].payment_amount)
           res == IF done.ok /\ ForeignKeysHold(done.rows, debts) THEN done
                  ELSE [ok |-> FALSE, rows |-> debts]
       IN  /\ debts' = res.rows
           /\ IF ~res.ok
              THEN /\ resp' = [resp EXCEPT ![p] = Response("500", "error")]
                   /\ UNCHANGED paid
              ELSE /\ paid' = [paid EXCEPT ![<<old.debtor, old.creditor>>] =
                                    @ + pay[p].payment_amount]
                   /\ resp' = [resp EXCEPT ![p] =
                        IF debt.amount <= 0
                        THEN Response("200", "Debt fully paid and deleted.")
                        ELSE [status |-> "200", debt |-> {debt}, message |-> ""]]
    /\ pc' = [pc EXCEPT ![p] = "idle"]
    /\ UNCHANGED <<receipts, items, splits, req, tx, todo, cur, pay, snap, folded,
                   nReq, nItems, nPay, nFold, hist, members>>

\* ------------------------------------------------ GroupWithdrawView.post
\* Group.creator.  The creator of group 1 is its member user 1.  The creator
\* of group 2, user 3, has no GroupMember row: GroupCreateView.post saves the
\* Group and then creates the creator's row, in no transaction, and the
\* second statement can fail.
Creator(g) == IF g = 1 THEN 1 ELSE 3

\* A cascade that would follow the debtor's foreign key only.
CascadeDebtsOfDebtor(V, gone) == { r \in V : r.debtor \notin gone }

\* on_delete=CASCADE of Debt.debtor and Debt.creditor: the rows that are left
\* when the members gone are deleted.
CascadeDebts(V, gone) ==
    { r \in V : r.debtor \notin gone /\ r.creditor \notin gone }

\* on_delete=CASCADE of ReceiptItemSplit.group_member and .paid_by.
CascadeSplits(S, gone) == { k \in S : k[2] \notin gone /\ k[3] \notin gone }

\* An open transaction has written a row that refers to one of the members:
\* it holds a lock on the GroupMember row, and a DELETE of that row waits
\* for the end of the transaction.
ReferencedByOpenTx(gone) ==
    \E q \in Procs :
        \/ \E s \in tx[q].splits : s.group_member \in gone \/ s.paid_by \in gone
        \/ \E r \in tx[q].wr : r.debtor \in gone \/ r.creditor \in gone

\* The whole handler: the membership of request.user, the creator's
\* exemption, membership.delete() with its cascades.
Withdraw(p, u, g) ==
    /\ pc[p] = "idle"
    /\ LET membership == { m \in members : m.group = g /\ m.user = u }
           gone == Ids(membership)
       IN  IF membership = {}
           THEN /\ resp' = [resp EXCEPT ![p] =
                                Response("400", "You are not a member of this group")]
                /\ UNCHANGED <<debts, splits, members>>
           ELSE IF Creator(g) = u
           THEN /\ resp' = [resp EXCEPT ![p] =
                                Response("403", "Creator cannot withdraw from the group")]
                /\ UNCHANGED <<debts, splits, members>>
           ELSE /\ ~ReferencedByOpenTx(gone)
                /\ members' = members \ membership
                /\ debts' = CascadeDebts(debts, gone)
                /\ splits' = CascadeSplits(splits, gone)
                /\ resp' = [resp EXCEPT ![p] =
                                Response("200", "Successfully withdrawn from group")]
    /\ UNCHANGED <<receipts, items, pc, req, tx, todo, cur, pay, snap, folded,
                   paid, nReq, nItems, nPay, nFold, hist>>

\* ------------------------------------------- the reads of the ledger
\* GroupDebtsView.get for a member of the group:
\* Debt.objects.filter(group=group), serialized.
GroupDebtsView_get(V, g) == { r \in V : r.group = g }

\* DashboardView.get's "debts" for a member of the group:
\* Debt.objects.filter(group=group).exclude(amount=0), sorted.
DashboardView_debts(V, g) == { r \in V : r.group = g /\ ~(r.amount = 0) }

\* ---------------------------------- update_debts called on its own
FoldAmounts == {0, 1, 3}

\* Splits of group g with amounts that are not negative.
FoldSplits(g) ==
    { [receipt_item |-> <<0, 0>>, group_member |-> d, amount |-> a, paid_by |-> c] :
      d \in MemberIdsOf(g), c \in MemberIdsOf(g), a \in FoldAmounts }

\* update_debts([split], group) on the committed table; cur keeps the
\* locals of the iteration.
FoldStep(g, split) ==
    /\ nFold < MaxFolds
    /\ nFold' = nFold + 1
    /\ debts' = FoldOne(debts, g, split)
    /\ cur' = [cur EXCEPT ![1] =
                 IF split.group_member = split.paid_by
                 THEN [NoCur EXCEPT !.split = {split}]
                 ELSE ReadDebts(debts, g, split)]
    /\ folded' = AddObligation(folded, split)
    /\ UNCHANGED <<receipts, items, splits, pc, resp, req, tx, todo, pay, snap,
                   paid, nReq, nItems, nPay, members>>

\* ------------------------------------------------------ specifications
\* Spec: requests served one at a time, by handler 1, from an empty database.
ConfirmBegin1 ==
    \E g \in Groups, u \in Users, methods \in MethodSeqs :
        /\ nReq < MaxReceipts
        /\ nItems + Len(methods) <= MaxItemRows
        /\ ConfirmBegin(1, g, u, methods)
ProcessItem1 ==
    \E paid_by_id \in MemberIds, split_user_id \in MemberIds, price \in Prices :
        ProcessItem(1, paid_by_id, split_user_id, price)
SplitItem1 == SplitItem(1)
FoldRead1 == \E split \in todo[1] : FoldRead(1, split)
FoldWrite1 == FoldWrite(1)
Commit1 == Commit(1)
PayBegin1 ==
    \E g \in Groups, u \in Users, debt_id \in Ids(debts) \cup {<<0, 0, 0>>},
       amount \in PayAmounts :
        /\ nPay < MaxPays
        /\ PayBegin(1, g, u, debt_id, amount)
PayWrite1 == PayWrite(1)

Next ==
    \/ ConfirmBegin1 \/ ProcessItem1 \/ SplitItem1 \/ FoldRead1 \/ FoldWrite1
    \/ Commit1 \/ PayBegin1 \/ PayWrite1

Spec == Init /\ [][Next]_vars

\* SpecFold: update_debts applied to one obligation after another, from an
\* empty ledger.
FoldAny ==
    \E g \in Groups : \E split \in FoldSplits(g) :
        FoldStep(g, split) /\ UNCHANGED hist

NextFold == FoldAny

SpecFold == Init /\ [][NextFold]_vars

\* SpecReplay: update_debts applied to a sequence of obligations, from an
\* empty ledger, and then to the same sequence once more.
FoldRecord ==
    \E g \in Groups : \E split \in FoldSplits(g) :
        /\ Len(hist) < MaxReplay
        /\ nFold = Len(hist)
        /\ FoldStep(g, split)
        /\ hist' = Append(hist, [group |-> g, split |-> split])

FoldReplay ==
    /\ hist # <<>>
    /\ nFold >= Len(hist)
    /\ nFold < 2 * Len(hist)
    /\ LET h == hist[nFold - Len(hist) + 1]
       IN  FoldStep(h.group, h.split)
    /\ UNCHANGED hist

NextReplay == FoldRecord \/ FoldReplay

SpecReplay == Init /\ [][NextReplay]_vars

\* SpecRoster: handler 1 serves confirmations and settlements one at a time,
\* from an empty database, while handler 2 serves the members' withdrawals.
ConfirmBeginR ==
    \E g \in Groups, u \in Users, methods \in { m \in MethodSeqs : Len(m) <= 1 } :
        /\ nReq + nPay < MaxInFlight
        /\ ConfirmBegin(1, g, u, methods)
PayBeginR ==
    \E g \in Groups, u \in Users, debt_id \in Ids(debts) \cup {<<0, 0, 0>>},
       amount \in PayAmounts :
        /\ nReq + nPay < MaxInFlight
        /\ PayBegin(1, g, u, debt_id, amount)
WithdrawR == \E u \in Users, g \in Groups : Withdraw(2, u, g)

NextRoster ==
    \/ ConfirmBeginR \/ ProcessItem1 \/ SplitItem1 \/ FoldRead1 \/ FoldWrite1
    \/ Commit1 \/ PayBeginR \/ PayWrite1 \/ WithdrawR

SpecRoster == Init /\ [][NextRoster]_vars

\* SpecConc: two handlers serve one request each at the same time, on the
\* database one committed receipt leaves (member 2 owes member 1 0.03).
InitEdge == [id |-> <<2, 1, 1>>, group |-> 1, debtor |-> 2, creditor |-> 1, amount |-> 3]

InitConc ==
    /\ debts = {InitEdge}
    /\ receipts = {1} /\ items = {<<1, 1>>} /\ splits = {<<<<1, 1>>, 2, 1>>}
    /\ pc = [p \in Procs |-> "idle"]
    /\ resp = [p \in Procs |-> Response("none", "")]
    /\ req = [p \in Procs |-> NoReq]
    /\ tx = [p \in Procs |-> NoTx]
    /\ todo = [p \in Procs |-> {}]
    /\ cur = [p \in Procs |-> NoCur]
    /\ pay = [p \in Procs |-> NoPay]
    /\ snap = [p \in Procs |-> Committed]
    /\ folded = [NoFold EXCEPT ![<<1, 2>>] = -3]
    /\ paid = [k \in MemberIds \X MemberIds |-> 0]
    /\ nReq = 0 /\ nItems = 0 /\ nPay = 0 /\ nFold = 0
    /\ hist = <<>>
    /\ members = GroupMember

\* The concurrent requests carry prices above zero.
ConcPrices == { x \in Prices : x > 0 }

ConfirmBeginC ==
    \E p \in Procs, g \in Groups, u \in Users,
       methods \in { m \in MethodSeqs : Len(m) <= 1 } :
        /\ nReq + nPay < MaxInFlight
        /\ ConfirmBegin(p, g, u, methods)
ProcessItemC ==
    \E p \in Procs, paid_by_id \in MemberIds, split_user_id \in MemberIds,
       price \in ConcPrices :
        ProcessItem(p, paid_by_id, split_user_id, price)
SplitItemC == \E p \in Procs : SplitItem(p)
FoldReadC == \E p \in Procs : \E split \in todo[p] : FoldRead(p, split)
FoldWriteC == \E p \in Procs : FoldWrite(p)
CommitC == \E p \in Procs : Commit(p)
DeadlockAbortC == \E p \in Procs : DeadlockAbort(p)
PayBeginC ==
    \E p \in Procs, g \in Groups, u \in Users,
       debt_id \in Ids(debts) \cup {<<0, 0, 0>>}, amount \in PayAmounts :
        /\ nReq + nPay < MaxInFlight
        /\ PayBegin(p, g, u, debt_id, amount)
PayWriteC == \E p \in Procs : PayWrite(p)

NextConc ==
    \/ ConfirmBeginC \/ ProcessItemC \/ SplitItemC \/ FoldReadC \/ FoldWriteC
    \/ CommitC \/ DeadlockAbortC \/ PayBeginC \/ PayWriteC

SpecConc == InitConc /\ [][NextConc]_vars

\* ------------------------------------------------------------ properties
\* The ledger without the primary keys.
Ledger(V) ==
    { [group |-> r.group, debtor |-> r.debtor, creditor |-> r.creditor,
       amount |-> r.amount] : r \in V }

RECURSIVE SumAmount(_)
SumAmount(S) ==
    IF S = {} THEN 0 ELSE LET r == The(S) IN r.amount + SumAmount(S \ {r})

\* What a owes b in V, and the net balance of the pair k = <<a, b>>.
Owes(V, a, b) == SumAmount({ r \in V : r.debtor = a /\ r.creditor = b })
Net(V, k) == Owes(V, k[1], k[2]) - Owes(V, k[2], k[1])

\* What member m owes minus what m is owed, and the sum of it over a set of
\* members.
Balance(V, m) ==
    SumAmount({ r \in V : r.debtor = m }) - SumAmount({ r \in V : r.creditor = m })

RECURSIVE SumBalance(_, _)
SumBalance(V, M) ==
    IF M = {} THEN 0
    ELSE LET m == The(M) IN Balance(V, m) + SumBalance(V, M \ {m})

PairOf(a, b) == IF a < b THEN <<a, b>> ELSE <<b, a>>

Idle == \A p \in Procs : pc[p] = "idle"

\* C1 (SpecFold): after every obligation folded into a ledger that started
\* empty, no two members of a group have an edge in each direction, and no
\* pair of members has more than one edge in total.
SingleEdge ==
    \A r1 \in debts : \A r2 \in debts :
        (r1 # r2 /\ r1.group = r2.group)
            => {r1.debtor, r1.creditor} # {r2.debtor, r2.creditor}

\* The last obligation exceeded the reverse edge: the edge now runs the
\* other way, with the difference, and the reverse edge is gone.
SingleEdgeWitness ==
    /\ nFold >= 2
    /\ cur[1].reverse_debt # {}
    /\ LET split == The(cur[1].split)
           reverse_debt == The(cur[1].reverse_debt)
       IN  /\ reverse_debt.amount > 0
           /\ split.amount > reverse_debt.amount
           /\ \E r \in debts : /\ r.debtor = split.group_member
                               /\ r.creditor = split.paid_by
                               /\ r.amount = split.amount - reverse_debt.amount
           /\ reverse_debt.id \notin Ids(debts)

\* C2 (Spec): after any sequence of confirmations and settlements every
\* stored edge has an amount strictly greater than zero.
PositiveEdges == \A r \in debts : r.amount > 0

\* C3 (SpecFold): with no settlements, for every pair of members the net
\* balance of the ledger equals the obligations folded one way minus the
\* obligations folded the other way, and the members' balances sum to zero.
Conservation ==
    /\ \A k \in Pairs : Net(debts, k) = folded[k]
    /\ SumBalance(debts, MemberIds) = 0

\* The last obligation was taken off a larger reverse edge, which stays with
\* the rest.
ConservationWitness ==
    /\ cur[1].reverse_debt # {}
    /\ LET split == The(cur[1].split)
           reverse_debt == The(cur[1].reverse_debt)
       IN  /\ split.amount > 0
           /\ reverse_debt.amount > split.amount
           /\ [reverse_debt EXCEPT !.amount = @ - split.amount] \in debts
           /\ folded[PairOf(reverse_debt.debtor, reverse_debt.creditor)] # 0

\* C4 (SpecFold): for every ledger of positive edges and every batch of two
\* obligations that are not negative, update_debts leaves the same ledger
\* whichever of the two it folds first.
OrderIndependent ==
    (\A r \in debts : r.amount > 0) =>
        \A g \in Groups : \A s1 \in FoldSplits(g) : \A s2 \in FoldSplits(g) :
            Ledger(update_debts(debts, g, <<s1, s2>>))
                = Ledger(update_debts(debts, g, <<s2, s1>>))

\* C5 (Spec): a confirmation answered 500 after it entered the atomic block
\* leaves the Receipt, ReceiptItem, ReceiptItemSplit and Debt tables as they
\* were when the request arrived.
BatchAtomic ==
    \A p \in Procs :
        (pc[p] = "idle" /\ resp[p].status = "500" /\ pay[p].user = 0)
            => Committed = snap[p]

\* A receipt of two items failed at its second item, after the Receipt row,
\* both ReceiptItem rows and the first item's splits had been created.
BatchAtomicWitness ==
    /\ pc[1] = "idle"
    /\ resp[1].status = "500"
    /\ pay[1].user = 0
    /\ Len(req[1].methods) = 1
    /\ nItems = 2
    /\ nReq = 1

\* C6 (SpecConc): however two confirmations of a group interleave, the
\* committed ledger never has more than one edge between two members.
NoCompetingEdges ==
    \A a \in MemberIds : \A b \in MemberIds :
        a # b => Cardinality({ r \in debts : {r.debtor, r.creditor} = {a, b} }) <= 1

\* C7 (SpecConc): when two concurrent confirmations that fold onto the edge
\* between members 1 and 2 have ended, the edge holds what a serial order
\* leaves: its net balance is the committed obligations' signed sum.
FoldsSerialized ==
    (Idle /\ nPay = 0) => Net(debts, <<1, 2>>) = folded[<<1, 2>>]

\* C8 (SpecConc): when concurrent settlements of the edge member 2 owes
\* member 1 have ended, the accepted payments do not exceed the edge, the
\* stored amount is the edge less every accepted payment, and an edge paid
\* in full is gone.
SettlementsSerialized ==
    (Idle /\ nReq = 0) =>
        LET total == paid[<<InitEdge.debtor, InitEdge.creditor>>]
        IN  /\ total <= InitEdge.amount
            /\ debts = IF total = InitEdge.amount THEN {}
                       ELSE {[InitEdge EXCEPT !.amount = @ - total]}

\* C9 (Spec): a settlement whose amount, rounded to cents, is not positive
\* or exceeds the edge is answered 400, is not applied in part, and leaves
\* the ledger as it was.
PayRejected ==
    \A p \in Procs :
        pay[p].debt # {} =>
            LET payment_amount == QuantizeHalfUp(pay[p].amount, 10)
                debt == The(pay[p].debt)
            IN  (payment_amount <= 0 \/ payment_amount > debt.amount)
                    => /\ pc[p] = "idle"
                       /\ resp[p].status = "400"
                       /\ debts = snap[p].debts
                       /\ debt \in debts

\* A payment above a positive edge was refused.
PayRejectedWitness ==
    /\ pay[1].debt # {}
    /\ The(pay[1].debt).amount > 0
    /\ QuantizeHalfUp(pay[1].amount, 10) > The(pay[1].debt).amount
    /\ resp[1].status = "400"
    /\ The(pay[1].debt) \in debts

\* C10 (Spec): an accepted payment p on an edge of amount a leaves the edge
\* with a - p, same debtor and creditor, when p < a; the edge is deleted,
\* with the answer "fully paid", exactly when p = a, and the group's debts no
\* longer show it.
PayEffect ==
    \A p \in Procs :
        (pc[p] = "idle" /\ pay[p].debt # {} /\ resp[p].status = "200") =>
            LET payment_amount == QuantizeHalfUp(pay[p].amount, 10)
                debt == The(pay[p].debt)
                left == [debt EXCEPT !.amount = @ - payment_amount]
                fully_paid == resp[p].message = "Debt fully paid and deleted."
            IN  /\ payment_amount <= debt.amount
                /\ payment_amount < debt.amount =>
                       /\ debts = (snap[p].debts \ {debt}) \cup {left}
                       /\ resp[p].debt = {left}
                       /\ ~fully_paid
                /\ payment_amount = debt.amount =>
                       /\ debts = snap[p].debts \ {debt}
                       /\ fully_paid
                       /\ FilterDebt(debts, debt.group, debt.debtor, debt.creditor) = {}

\* An edge was paid in full while another edge stays in the ledger.
PayEffectWitness ==
    /\ pc[1] = "idle"
    /\ pay[1].debt # {}
    /\ resp[1].message = "Debt fully paid and deleted."
    /\ QuantizeHalfUp(pay[1].amount, 10) = The(pay[1].debt).amount
    /\ debts # {}
    /\ The(pay[1].debt).id \notin Ids(debts)

\* Thousandths rounded to cents, a tie going away from zero.
HalfUpCents(mills) ==
    IF mills >= 0 THEN (mills + 5) \div 10 ELSE -((5 - mills) \div 10)

\* C11 (Spec): the amount of a settlement is rounded to cents, half up,
\* before anything else: the request is accepted exactly when the rounded
\* amount is positive and not above the edge, and the rounded amount is what
\* is taken off the edge.
PayNormalized ==
    \A p \in Procs :
        pay[p].debt # {} =>
            LET rounded == HalfUpCents(pay[p].amount)
                debt == The(pay[p].debt)
            IN  /\ pay[p].payment_amount = rounded
                /\ pc[p] = "pay" => (0 < rounded /\ rounded <= debt.amount)
                /\ pc[p] = "idle" =>
                       /\ resp[p].status = "200"
                              <=> (0 < rounded /\ rounded <= debt.amount)
                       /\ resp[p].status = "200" =>
                              Owes(debts, debt.debtor, debt.creditor)
                                  = debt.amount - rounded
                       /\ (resp[p].status = "200" /\ rounded = debt.amount) =>
                              resp[p].message = "Debt fully paid and deleted."

\* A payment of 0.025 was rounded up to 0.03 and settled an edge of 0.03 in
\* full.
PayNormalizedWitness ==
    /\ pc[1] = "idle"
    /\ pay[1].amount = 25
    /\ pay[1].debt # {}
    /\ The(pay[1].debt).amount = 3
    /\ pay[1].payment_amount = 3
    /\ resp[1].message = "Debt fully paid and deleted."
    /\ FilterDebt(debts, pay[1].group, The(pay[1].debt).debtor,
                  The(pay[1].debt).creditor) = {}

\* C12 (SpecFold): a step of update_debts on an obligation whose debtor is
\* its creditor leaves the Debt table as it was, whatever the ledger and the
\* amount.
SelfDebtNoOp ==
    [][(/\ nFold' = nFold + 1
        /\ \E split \in cur'[1].split : split.group_member = split.paid_by)
           => debts' = debts]_vars

\* An obligation of 0.03 of a member to themselves was folded into a ledger
\* that has edges, one of them an edge of that member.
SelfDebtNoOpWitness ==
    /\ nFold >= 2
    /\ \E split \in cur[1].split :
           /\ split.group_member = split.paid_by
           /\ split.amount = 3
           /\ \E r \in debts : split.paid_by \in {r.debtor, r.creditor}
    /\ \A r \in debts : r.debtor # r.creditor

\* The edges of V between members a and b, either way, without their keys.
PairEdges(V, a, b) == { r \in Ledger(V) : {r.debtor, r.creditor} = {a, b} }

\* C13 (SpecFold): when update_debts folded B owes A y and found no edge
\* (B, A) but an edge A owes B x with y > x, the pair is left with exactly
\* one edge, B owes A y - x.
Reversal ==
    \A split \in cur[1].split : \A reverse_debt \in cur[1].reverse_debt :
        split.amount > reverse_debt.amount =>
            PairEdges(debts, split.group_member, split.paid_by)
                = {[group |-> reverse_debt.group,
                    debtor |-> split.group_member,
                    creditor |-> split.paid_by,
                    amount |-> split.amount - reverse_debt.amount]}

\* An obligation of 0.03 met a reverse edge of 0.01 and left an edge of 0.02
\* the other way.
ReversalWitness ==
    \E split \in cur[1].split : \E reverse_debt \in cur[1].reverse_debt :
        /\ reverse_debt.amount = 1
        /\ split.amount = 3
        /\ reverse_debt.debtor = split.paid_by
        /\ reverse_debt.creditor = split.group_member
        /\ Owes(debts, split.group_member, split.paid_by) = 2
        /\ FilterDebt(debts, reverse_debt.group, reverse_debt.debtor,
                      reverse_debt.creditor) = {}

\* C14 (SpecFold): when update_debts folded B owes A x and found an edge
\* A owes B of the same amount x, no edge is left between A and B in either
\* direction.
ZeroPrune ==
    \A split \in cur[1].split : \A reverse_debt \in cur[1].reverse_debt :
        split.amount = reverse_debt.amount =>
            PairEdges(debts, split.group_member, split.paid_by) = {}

\* An obligation of 0.03 met a reverse edge of 0.03, and the pair has no
\* edge now.
ZeroPruneWitness ==
    \E split \in cur[1].split : \E reverse_debt \in cur[1].reverse_debt :
        /\ reverse_debt.amount = 3
        /\ split.amount = 3
        /\ reverse_debt.id \notin Ids(debts)
        /\ FilterDebt(debts, reverse_debt.group, split.group_member,
                      split.paid_by) = {}
        /\ FilterDebt(debts, reverse_debt.group, split.paid_by,
                      split.group_member) = {}

\* The splits transaction p created for the item of item_data d.
SplitsOf(p, d) == { s \in tx[p].splits : s.receipt_item = d.item }

\* a is price / n rounded to a whole number of cents (a nearest one).
NearestCent(a, price, n) == 2 * Abs(n * a - price) <= n

\* price / n rounded to cents, a tie going up, for a price that is not
\* negative.
HalfUpShare(price, n) == (2 * price + n) \div (2 * n)

\* C15 (Spec): an EVENLY item of price P in a group of n members gets
\* exactly n splits, one for each member, the payer included, all paid_by
\* the payer and all of the amount P / n rounded to cents half up; what the
\* rounding leaves over is given to no one, so the splits sum to n times
\* that amount.
EvenlyAllocation ==
    \A p \in Procs : \A d \in tx[p].item_data :
        (d.split_method = "EVENLY" /\ d.actual_price >= 0) =>
            LET S == SplitsOf(p, d)
                M == MemberIdsOf(req[p].group)
                n == Cardinality(M)
            IN  /\ n >= 1
                /\ Cardinality(S) = n
                /\ { s.group_member : s \in S } = M
                /\ d.paid_by_id \in M
                /\ \A s \in S : /\ s.paid_by = d.paid_by_id
                                /\ s.amount = HalfUpShare(d.actual_price, n)
                /\ SumAmount(S) = n * HalfUpShare(d.actual_price, n)

\* What holds of the allocation whatever way a tie is rounded: n splits, one
\* for each member, all paid_by the payer, all of one amount that is a cent
\* nearest to P / n, nothing redistributed.
EvenlyAllocationNearest ==
    \A p \in Procs : \A d \in tx[p].item_data :
        d.split_method = "EVENLY" =>
            LET S == SplitsOf(p, d)
                M == MemberIdsOf(req[p].group)
                n == Cardinality(M)
            IN  /\ n >= 1
                /\ Cardinality(S) = n
                /\ { s.group_member : s \in S } = M
                /\ d.paid_by_id \in M
                /\ \A s \in S : /\ s.paid_by = d.paid_by_id
                                /\ NearestCent(s.amount, d.actual_price, n)
                /\ \A s \in S : \A t \in S : s.amount = t.amount
                /\ \A s \in S : SumAmount(S) = n * s.amount

\* C16 (Spec): every split of an EVENLY item of price P in a group of n
\* members has the amount P / n rounded to cents half up, ties included.
EvenlyHalfUp ==
    \A p \in Procs : \A d \in tx[p].item_data :
        (d.split_method = "EVENLY" /\ d.actual_price >= 0) =>
            \A s \in SplitsOf(p, d) :
                s.amount = HalfUpShare(d.actual_price,
                                       Cardinality(MembersOf(req[p].group)))

\* C17 (Spec): when a receipt of one EVENLY item of price P paid by member A
\* is confirmed on an empty ledger, the committed ledger has exactly one
\* edge for every other member m of the group, m owes A the share P / n
\* rounded to cents half up, and no other edge.
EvenlyEndToEnd ==
    [][\A p \in Procs :
          (/\ pc[p] = "fold"
           /\ pc'[p] = "idle"
           /\ resp'[p].status = "201"
           /\ debts = {}
           /\ Cardinality(tx[p].item_data) = 1
           /\ \A d \in tx[p].item_data :
                  d.split_method = "EVENLY" /\ d.actual_price >= 0)
          => LET d == The(tx[p].item_data)
                 g == req[p].group
                 M == MemberIdsOf(g)
             IN  Ledger(debts')
                   = { [group |-> g, debtor |-> m, creditor |-> d.paid_by_id,
                        amount |-> HalfUpShare(d.actual_price, Cardinality(M))] :
                       m \in M \ {d.paid_by_id} }
      ]_vars

\* What holds of the confirmation whatever way a tie is rounded: one edge
\* for every other member, m owes A the amount of the item's splits, and no
\* other edge.
EvenlyEndToEndNearest ==
    [][\A p \in Procs :
          (/\ pc[p] = "fold"
           /\ pc'[p] = "idle"
           /\ resp'[p].status = "201"
           /\ debts = {}
           /\ Cardinality(tx[p].item_data) = 1
           /\ \A d \in tx[p].item_data : d.split_method = "EVENLY")
          => LET d == The(tx[p].item_data)
                 g == req[p].group
                 M == MemberIdsOf(g)
             IN  \E s \in tx[p].splits :
                    /\ NearestCent(s.amount, d.actual_price, Cardinality(M))
                    /\ Ledger(debts')
                         = { [group |-> g, debtor |-> m,
                              creditor |-> d.paid_by_id,
                              amount |-> s.amount] : m \in M \ {d.paid_by_id} }
      ]_vars

\* C18 (Spec): a BY_USER item of price P, payer A and split user T gets
\* exactly one split: group_member T, paid_by A, amount P as it is; no other
\* member of the group gets a split.
ByUserAllocation ==
    \A p \in Procs : \A d \in tx[p].item_data :
        d.split_method = "BY_USER" =>
            SplitsOf(p, d) = {[receipt_item |-> d.item,
                               group_member |-> d.split_user_id,
                               amount |-> d.actual_price,
                               paid_by |-> d.paid_by_id]}

\* A BY_USER item of 0.03, paid by member 1 for member 2 in the group of
\* three, has its one split, and member 3 has none.
ByUserAllocationWitness ==
    \E d \in tx[1].item_data :
        /\ d.split_method = "BY_USER"
        /\ d.actual_price = 3
        /\ d.paid_by_id = 1
        /\ d.split_user_id = 2
        /\ req[1].group = 1
        /\ Cardinality(SplitsOf(1, d)) = 1
        /\ \A s \in SplitsOf(1, d) : s.group_member = 2 /\ s.amount = 3

\* update_debts applied to the recorded obligations h, in their order.
RECURSIVE FoldHist(_, _)
FoldHist(V, h) ==
    IF h = <<>> THEN V
    ELSE FoldHist(FoldOne(V, Head(h).group, Head(h).split), Tail(h))

\* C19 (SpecReplay): when a sequence of obligations has been folded into an
\* empty ledger and then folded again, every pair of members has a net
\* balance of the same direction as after the first time and of exactly
\* twice the amount.
ReplayDoubles ==
    (hist # <<>> /\ nFold = 2 * Len(hist)) =>
        \A k \in Pairs : Net(debts, k) = 2 * Net(FoldHist({}, hist), k)

\* Two obligations of opposite directions, 0.03 and 0.01, were folded twice:
\* the edge of 0.02 they leave the first time is an edge of 0.04 now.
ReplayDoublesWitness ==
    /\ Len(hist) = 2
    /\ nFold = 4
    /\ hist[1].split.amount = 3
    /\ hist[2].split.amount = 1
    /\ hist[2].split.group_member = hist[1].split.paid_by
    /\ hist[2].split.paid_by = hist[1].split.group_member
    /\ Owes(FoldHist({}, hist), hist[1].split.group_member,
            hist[1].split.paid_by) = 2
    /\ Owes(debts, hist[1].split.group_member, hist[1].split.paid_by) = 4
    /\ Cardinality(debts) = 1

\* The requester of handler p's settlement request is a member of the group
\* of the request and is the debtor or the creditor of the targeted edge, as
\* the tables stood when the request arrived.
Authorized(p) ==
    \E m \in GroupMember : \E r \in snap[p].debts :
        /\ m.group = pay[p].group
        /\ m.user = pay[p].user
        /\ r.id = pay[p].debt_id
        /\ r.group = pay[p].group
        /\ m.id \in {r.debtor, r.creditor}

\* C20 (Spec): a PayDebt request reaches the write, and is answered 200, only
\* if the requester is a member of the group and is the debtor or the
\* creditor of the targeted edge; a request of any other user is rejected
\* (403 or 404) and the ledger, the targeted edge included, is unchanged.
PayAuthorized ==
    \A p \in Procs :
        pay[p].user # 0 =>
            /\ pc[p] = "pay" => Authorized(p)
            /\ resp[p].status = "200" => Authorized(p)
            /\ (pc[p] = "idle" /\ ~Authorized(p)) =>
                    /\ resp[p].status \in {"403", "404"}
                    /\ debts = snap[p].debts

\* A member of the group who is neither end of the edge asked to settle it
\* and was refused; the edge is still in the ledger.
PayAuthorizedWitness ==
    /\ pc[1] = "idle"
    /\ resp[1] = Response("403", "You are not involved in this debt.")
    /\ IsMember(pay[1].group, pay[1].user)
    /\ ~Authorized(1)
    /\ \E r \in debts : r.id = pay[1].debt_id /\ r.amount > 0

\* The item names, as its payer or as the member a BY_USER item is for, a
\* GroupMember id that is not of group g.
NamesNonMember(method, paid_by_id, split_user_id, g) ==
    \/ paid_by_id \notin MemberIdsOf(g)
    \/ method = "BY_USER" /\ split_user_id \notin MemberIdsOf(g)

\* C21 (Spec): a confirmation whose item names a payer, or for BY_USER a
\* split member, that is not a member of the group fails with 500 at that
\* item and nothing of it is stored; every receipt that is committed has only
\* splits whose member and payer are members of its group, and every edge of
\* the ledger names members of its own group.
MemberValidation ==
    [][/\ \A paid_by_id \in MemberIds : \A split_user_id \in MemberIds :
          \A price \in Prices :
              (/\ pc[1] = "items"
               /\ paid_by_id \notin MemberIdsOf(req[1].group)
               /\ ProcessItem(1, paid_by_id, split_user_id, price))
                  => /\ pc'[1] = "idle"
                     /\ resp'[1].status = "500"
                     /\ tx'[1] = NoTx
                     /\ Committed' = snap[1]
       /\ \A d \in cur[1].item :
              (/\ pc[1] = "split"
               /\ pc'[1] # "split"
               /\ NamesNonMember(d.split_method, d.paid_by_id, d.split_user_id,
                                 req[1].group))
                  => /\ pc'[1] = "idle"
                     /\ resp'[1].status = "500"
                     /\ tx'[1] = NoTx
                     /\ Committed' = snap[1]
       /\ (pc[1] = "fold" /\ resp'[1].status = "201") =>
              \A s \in tx[1].splits :
                  {s.group_member, s.paid_by} \subseteq MemberIdsOf(req[1].group)
       /\ \A r \in debts' :
              {r.debtor, r.creditor} \subseteq MemberIdsOf(r.group)]_vars

\* The second receipt failed at a BY_USER item that names a row which is no
\* member of the group; the ledger is the one the first receipt left.
MemberValidationWitness ==
    /\ pc[1] = "idle"
    /\ resp[1] = Response("500", "No GroupMember matches the given query.")
    /\ req[1].methods # <<>>
    /\ Head(req[1].methods) = "BY_USER"
    /\ nReq = 2
    /\ debts # {}
    /\ debts = snap[1].debts
    /\ \A r \in debts : {r.debtor, r.creditor} \subseteq MemberIdsOf(r.group)

\* C22 (Spec): a settlement request of the debtor or the creditor of the
\* edge whose amount is not a number is answered 400, as an invalid payment
\* amount, and leaves the ledger as it was.
PayNotANumber ==
    \A p \in Procs :
        (pc[p] = "idle" /\ pay[p].user # 0 /\ ~pay[p].numeric /\ Authorized(p))
            => /\ resp[p].status = "400"
               /\ debts = snap[p].debts

\* C23 (Spec): in every reachable ledger, what GroupDebtsView and the
\* dashboard return for a group is exactly the edges of that group whose
\* amount is not zero.
ReadsNonZero ==
    \A g \in Groups :
        LET non_zero == { r \in debts : r.group = g /\ r.amount # 0 }
        IN  /\ GroupDebtsView_get(debts, g) = non_zero
            /\ DashboardView_debts(debts, g) = non_zero

\* C24 (Spec): every ReceiptItemSplit a confirmation creates for a request
\* that passed validate_receipt_data, and so every obligation update_debts
\* is handed, has an amount that is not negative.
SplitsNonNegative ==
    \A p \in Procs : \A s \in tx[p].splits \cup todo[p] : s.amount >= 0

\* The group whose GroupMember row has id m.
GroupOf(m) == (CHOOSE x \in GroupMember : x.id = m).group

\* C25 (SpecRoster): when create_receipt_item_and_splits comes to split an
\* EVENLY item and the group has no member left, the confirmation fails with
\* 500, no split of the item is made, the transaction is rolled back, and the
\* tables hold no receipt, item, split or edge of that confirmation.
EmptyRoster ==
    [][\A d \in cur[1].item :
           (/\ pc[1] = "split"
            /\ pc'[1] # "split"
            /\ d.split_method = "EVENLY"
            /\ { m \in members : m.group = req[1].group } = {})
               => /\ pc'[1] = "idle"
                  /\ resp'[1].status = "500"
                  /\ tx'[1] = NoTx
                  /\ Committed' = Committed
                  /\ tx[1].receipts \cap receipts' = {}
                  /\ \A i \in items' : i[1] \notin tx[1].receipts
                  /\ \A k \in splits' : k[1] \notin tx[1].items
                  /\ \A r \in debts' : r.group # req[1].group]_vars

\* The first confirmation, of group 2, failed at an EVENLY item after the
\* last member of the group had withdrawn, and the tables are empty.
EmptyRosterWitness ==
    /\ pc[1] = "idle"
    /\ resp[1] = Response("500", "No members in the group to split the item.")
    /\ nReq = 1
    /\ req[1].group = 2
    /\ Head(req[1].methods) = "EVENLY"
    /\ { m \in members : m.group = 2 } = {}
    /\ tx[1] = NoTx
    /\ receipts = {} /\ items = {} /\ splits = {} /\ debts = {}

\* C26 (SpecFold): a step of update_debts on the obligation D owes C in
\* group G leaves every edge other than (D, C) and (C, D) of G in the table
\* with its key, debtor, creditor and amount, and adds no edge other than
\* those two.
FoldFrame ==
    [][nFold' = nFold + 1 =>
          \A split \in cur'[1].split :
              LET OfPair(r) ==
                      /\ r.group = GroupOf(split.group_member)
                      /\ \/ r.debtor = split.group_member /\ r.creditor = split.paid_by
                         \/ r.debtor = split.paid_by /\ r.creditor = split.group_member
              IN  { r \in debts' : ~OfPair(r) } = { r \in debts : ~OfPair(r) }]_vars

\* An obligation cancelled the edge of a pair, which was deleted, in a
\* ledger where the debtor of that edge has another edge and the other group
\* has an edge too.
FoldFrameWitness ==
    /\ cur[1].reverse_debt # {}
    /\ LET split == The(cur[1].split)
           reverse_debt == The(cur[1].reverse_debt)
       IN  /\ split.amount = reverse_debt.amount
           /\ split.amount > 0
           /\ reverse_debt.id \notin Ids(debts)
           /\ \E r \in debts : r.debtor = reverse_debt.debtor
           /\ \E r \in debts : r.group # reverse_debt.group

\* C27 (SpecConc): an accepted settlement of an edge leaves every other edge
\* as it was, adds no edge to the table, and leaves the edge it settles, if
\* it is still there, with its debtor, creditor and group and an amount that
\* is not above the one it had.
SettlementFrame ==
    [][\A p \in Procs :
          (pc[p] = "pay" /\ pc'[p] = "idle" /\ resp'[p].status = "200") =>
              LET old == The(pay[p].debt)
              IN  /\ { r \in debts' : r.id # old.id } = { r \in debts : r.id # old.id }
                  /\ Ids(debts') \subseteq Ids(debts)
                  /\ \A r \in debts' : \A r0 \in debts :
                         (r.id = old.id /\ r0.id = old.id) =>
                             /\ r.group = r0.group
                             /\ r.debtor = r0.debtor
                             /\ r.creditor = r0.creditor
                             /\ r.amount <= r0.amount]_vars

\* C29 (Spec): for every edge of every reachable ledger, a settlement
\* request for exactly the amount of the edge passes validate_payment_amount
\* and the write of that payment removes the edge.
Dischargeable ==
    \A r \in debts :
        LET checked == validate_payment_amount(10 * r.amount, r.amount)
        IN  /\ checked.valid
            /\ r.id \notin Ids(ApplyPayment(debts, r, checked.payment_amount).rows)

\* User u has no GroupMember row in group g.
Outsider(g, u) == ~\E m \in GroupMember : m.group = g /\ m.user = u

\* C30 (Spec): a confirmation or a settlement requested by a user who is not
\* a member of the addressed group, and a settlement whose debt_id is an edge
\* of another group than the addressed one, is answered 403 or 404 at once:
\* the handler opens no transaction and goes to no write, and the Receipt,
\* ReceiptItem, ReceiptItemSplit and Debt tables are as they were.
GroupIsolation ==
    [][/\ nReq' # nReq =>
          \/ /\ resp'[1].status = "403"
             /\ pc'[1] = "idle"
             /\ tx'[1] = NoTx
             /\ Committed' = Committed
          \/ \A g \in Groups : \A u \in Users :
                 Outsider(g, u) =>
                     \A methods \in MethodSeqs : ~ConfirmBegin(1, g, u, methods)
       /\ nPay' # nPay =>
          LET asked == pay'[1]
          IN  (\/ Outsider(asked.group, asked.user)
               \/ \E r \in debts : r.id = asked.debt_id /\ r.group # asked.group)
                  => /\ resp'[1].status \in {"403", "404"}
                     /\ pc'[1] = "idle"
                     /\ tx'[1] = NoTx
                     /\ Committed' = Committed]_vars

\* A user who is a member of both groups addressed one group with the id of
\* an edge of the other and was answered 404; the edge is as it was.
GroupIsolationWitness ==
    /\ pc[1] = "idle"
    /\ pay[1].user # 0
    /\ ~Outsider(pay[1].group, pay[1].user)
    /\ resp[1].status = "404"
    /\ \E r \in debts : /\ r.id = pay[1].debt_id
                        /\ r.group # pay[1].group
                        /\ r.amount > 0
                        /\ r \in snap[1].debts

\* C28 (SpecRoster): the debtor and the creditor of every edge are two
\* different rows of the GroupMember table as it is now, both of the group
\* of the edge; so no edge names a member who has withdrawn.
LedgerRefersToMembers ==
    \A r \in debts :
        /\ r.debtor # r.creditor
        /\ {r.debtor, r.creditor} \subseteq { m.id : m \in { x \in members : x.group = r.group } }

\* A member withdrew who had an edge above zero (obligations of that member
\* were committed and nothing was paid): no edge names the member, and the
\* ledger still has another edge.
LedgerRefersToMembersWitness ==
    /\ resp[2] = Response("200", "Successfully withdrawn from group")
    /\ nPay = 0
    /\ \E m \in GroupMember \ members :
           /\ \E k \in Pairs : m.id \in {k[1], k[2]} /\ folded[k] > 0
           /\ \A r \in debts : m.id \notin {r.debtor, r.creditor}
    /\ \E r \in debts : r.amount > 0

====
